---- MODULE Spec2Model ----
(***************************************************************************)
(* Step-wise max-flow engine of MaxFlow-AI-Visualizer                      *)
(* (services/maxFlowAlgorithm.ts) driven by the application's handleStep.  *)
(*                                                                         *)
(* A graph is a record [nodes, edges]; both are sequences, because the     *)
(* code walks them in array order.  Node coordinates (x, y) are left out:  *)
(* the engine never reads them.                                            *)
(***************************************************************************)
EXTENDS Integers, Sequences, FiniteSets, TLC

VARIABLES graph, algoState, threw, isAutoPlaying, interval, aiLoading, aiMessage, edits

vars == <<graph, algoState, threw, isAutoPlaying, interval, aiLoading, aiMessage, edits>>

(* ---------------------------------------------------------------------- *)
(* Bounds of the model                                                     *)
(* ---------------------------------------------------------------------- *)
\* longest edge list of an enumerated small graph
MaxEdges == 2
\* largest capacity of an edge of an enumerated small graph
MaxCap == 2
\* handleStep is not taken once the log holds this many entries
MaxLogs == 30
\* in the application with its editor, steps stop at this many log entries
MaxAppLogs == 6
\* number of graph edits the editor performs
MaxEdits == 1

(* ---------------------------------------------------------------------- *)
(* Values                                                                  *)
(* ---------------------------------------------------------------------- *)
\* Number.POSITIVE_INFINITY of the source's sentinel label: above every sum
\* of capacities of the model, so Math.min(Infinity, x) = x.
Infinity == 1000000

\* JavaScript null / undefined for an id, a path, a number
NullId == "null"
NullPath == <<>>
NullNumber == -1

\* node.label === undefined
NoLabel == [prevNodeId |-> NullId, direction |-> "none", flow |-> 0]

Label(prev, dir, f) == [prevNodeId |-> prev, direction |-> dir, flow |-> f]

MkNode(id, src, snk) == [id |-> id, isSource |-> src, isSink |-> snk, label |-> NoLabel]

MkEdge(id, s, t, c) == [id |-> id, source |-> s, target |-> t, capacity |-> c, flow |-> 0]

Min(a, b) == IF a <= b THEN a ELSE b

\* Array.prototype.findIndex: the first index whose element satisfies P, 0 when none does
FindIndex(seq, P(_)) ==
  IF \E i \in 1..Len(seq) : P(seq[i])
  THEN CHOOSE i \in 1..Len(seq) : P(seq[i]) /\ \A j \in 1..(i - 1) : ~P(seq[j])
  ELSE 0

\* Array.prototype.map
Map(seq, F(_)) == [i \in 1..Len(seq) |-> F(seq[i])]

(* ---------------------------------------------------------------------- *)
(* Log entries: the text of a log line is its kind and the values it shows *)
(* ---------------------------------------------------------------------- *)
Log(kind, node, amount, total) == [kind |-> kind, node |-> node, amount |-> amount, total |-> total]

LogInit == Log("init", NullId, 0, 0)
LogStart == Log("start", NullId, 0, 0)
LogFinished(mf) == Log("finished", NullId, 0, mf)
LogSink(bn) == Log("sink", NullId, bn, 0)
LogChecked(uId) == Log("checked", uId, 0, 0)
LogAugmented(bn, mf) == Log("augmented", NullId, bn, mf)

(* ---------------------------------------------------------------------- *)
(* Graphs the application can hold when the engine state is fresh          *)
(* ---------------------------------------------------------------------- *)
INITIAL_GRAPH ==
  [nodes |-> << MkNode("s", TRUE, FALSE), MkNode("v1", FALSE, FALSE),
                MkNode("v2", FALSE, FALSE), MkNode("v3", FALSE, FALSE),
                MkNode("v4", FALSE, FALSE), MkNode("t", FALSE, TRUE) >>,
   edges |-> << MkEdge("e1", "s", "v1", 10), MkEdge("e2", "s", "v2", 10),
                MkEdge("e3", "v1", "v2", 2), MkEdge("e4", "v1", "v3", 4),
                MkEdge("e5", "v1", "v4", 8), MkEdge("e6", "v2", "v4", 9),
                MkEdge("e7", "v4", "v3", 6), MkEdge("e8", "v3", "t", 10),
                MkEdge("e9", "v4", "t", 10) >>]

\* two nodes and one edge s->t of capacity 5
SingleEdgeGraph ==
  [nodes |-> << MkNode("s", TRUE, FALSE), MkNode("t", FALSE, TRUE) >>,
   edges |-> << MkEdge("e0", "s", "t", 5) >>]

\* the second round has to cancel the flow on v1->v2 through a backward label
CrossGraph ==
  [nodes |-> << MkNode("s", TRUE, FALSE), MkNode("v1", FALSE, FALSE),
                MkNode("v2", FALSE, FALSE), MkNode("v3", FALSE, FALSE),
                MkNode("v4", FALSE, FALSE), MkNode("t", FALSE, TRUE) >>,
   edges |-> << MkEdge("e1", "s", "v1", 1), MkEdge("e2", "v1", "v2", 1),
                MkEdge("e3", "v2", "t", 1), MkEdge("e4", "s", "v3", 1),
                MkEdge("e5", "v3", "v2", 1), MkEdge("e6", "v1", "v4", 1),
                MkEdge("e7", "v4", "t", 1) >>]

\* default node names with edges drawn in the editor, among them both
\* v1->v2 and v2->v1 (addEdge refuses only a second edge of the same direction)
AntiParallelGraph ==
  [nodes |-> << MkNode("s", TRUE, FALSE), MkNode("v1", FALSE, FALSE),
                MkNode("v2", FALSE, FALSE), MkNode("v3", FALSE, FALSE),
                MkNode("v4", FALSE, FALSE), MkNode("v5", FALSE, FALSE),
                MkNode("v6", FALSE, FALSE), MkNode("v7", FALSE, FALSE),
                MkNode("v8", FALSE, FALSE), MkNode("t", FALSE, TRUE) >>,
   edges |-> << MkEdge("e1", "s", "v1", 1), MkEdge("e2", "v1", "v2", 1),
                MkEdge("e3", "v2", "t", 1), MkEdge("e4", "s", "v3", 1),
                MkEdge("e5", "v3", "v2", 1), MkEdge("e6", "v2", "v1", 1),
                MkEdge("e7", "v1", "v4", 1), MkEdge("e8", "v4", "t", 1),
                MkEdge("e9", "s", "v5", 1), MkEdge("e10", "v5", "v6", 1),
                MkEdge("e11", "v6", "v1", 1), MkEdge("e12", "v2", "v7", 1),
                MkEdge("e13", "v7", "v8", 1), MkEdge("e14", "v8", "t", 1) >>]

FixedGraphs == {INITIAL_GRAPH, SingleEdgeGraph, CrossGraph, AntiParallelGraph}

\* ids of the nodes of an enumerated small graph, in array order
SmallIds == <<"s", "v1", "t">>

SmallIdSet == {SmallIds[i] : i \in 1..Len(SmallIds)}

\* addEdge never joins a node to itself (GraphCanvas requires two distinct nodes)
Pairs == {p \in SmallIdSet \X SmallIdSet : p[1] # p[2]}

\* capacities of the edges of an enumerated small graph: the smallest one addEdge
\* draws and a larger one
SmallCapacities == {1, MaxCap}

\* edge lists of exactly n edges: addEdge appends, and refuses a (source, target) already present
RECURSIVE EdgeLists(_)
EdgeLists(n) ==
  IF n = 0 THEN {<<>>}
  ELSE {Append(es, [id |-> ToString(n), source |-> p[1], target |-> p[2], capacity |-> c, flow |-> 0]) :
          es \in EdgeLists(n - 1), p \in Pairs, c \in SmallCapacities}

NoDuplicatePair(es) ==
  \A i, j \in 1..Len(es) : i # j => ~(es[i].source = es[j].source /\ es[i].target = es[j].target)

SmallEdgeLists == {es \in UNION {EdgeLists(n) : n \in 0..MaxEdges} : NoDuplicatePair(es)}

\* setSource / setSink flag at most one node each, never the same node; a
\* deleted source or sink leaves the graph without one
SourceSinkChoices ==
  {c \in (SmallIdSet \cup {NullId}) \X (SmallIdSet \cup {NullId}) : c[1] = NullId \/ c[1] # c[2]}

SmallNodeLists ==
  {[i \in 1..Len(SmallIds) |-> MkNode(SmallIds[i], SmallIds[i] = c[1], SmallIds[i] = c[2])] :
     c \in SourceSinkChoices}

SmallGraphs == {[nodes |-> ns, edges |-> es] : ns \in SmallNodeLists, es \in SmallEdgeLists}

InitialGraphs == FixedGraphs \cup SmallGraphs

(* ---------------------------------------------------------------------- *)
(* services/maxFlowAlgorithm.ts                                            *)
(* ---------------------------------------------------------------------- *)
\* initializeAlgorithm that starts with an empty log
initializeAlgorithmEmptyLogs ==
  [phase |-> "IDLE", queue |-> <<>>, pathFound |-> NullPath, bottleneck |-> NullNumber,
   visited |-> {}, maxFlow |-> 0, logs |-> <<>>]

initializeAlgorithm ==
  [phase |-> "IDLE", queue |-> <<>>, pathFound |-> NullPath, bottleneck |-> NullNumber,
   visited |-> {}, maxFlow |-> 0, logs |-> <<LogInit>>]

\* clearLabels that installs the source's sentinel and leaves every other label as it is
clearLabelsKeepsOld(nodes) ==
  Map(nodes, LAMBDA n : [n EXCEPT !.label = IF n.isSource THEN Label(NullId, "+", Infinity) ELSE n.label])

\* clearLabels that rebuilds each node from its id and isSource only, losing isSink
clearLabelsDropsSink(nodes) ==
  Map(nodes, LAMBDA n : [n EXCEPT !.isSink = FALSE,
                                  !.label = IF n.isSource THEN Label(NullId, "+", Infinity) ELSE NoLabel])

clearLabels(nodes) ==
  Map(nodes, LAMBDA n : [n EXCEPT !.label = IF n.isSource THEN Label(NullId, "+", Infinity) ELSE NoLabel])

\* what a call of stepAlgorithm gives its caller: a returned pair, or an exception
Returned(g, st) == [graph |-> g, state |-> st, threw |-> FALSE]
Thrown(g, st) == [graph |-> g, state |-> st, threw |-> TRUE]

\* the while loop of labelNode: walks prevNodeId links from curr until a node
\* whose id is 's'.  On the source of the labeling tree prevNodeId is null,
\* newNodes.find gives undefined and the loop test reads undefined.id: TypeError.
RECURSIVE Backtrack(_, _, _)
Backtrack(newNodes, curr, path) ==
  IF curr.id = "s" THEN [threw |-> FALSE, path |-> path]
  ELSE LET prevId == curr.label.prevNodeId
           idx == FindIndex(newNodes, LAMBDA n : n.id = prevId)
       IN IF idx = 0
          THEN [threw |-> TRUE, path |-> <<prevId>> \o path]
          ELSE Backtrack(newNodes, newNodes[idx], <<prevId>> \o path)

\* locals whose newVisited starts as an empty set instead of a copy of visited
LocalsEmptyVisited(nodes, queue, visited) ==
  [newNodes |-> nodes, newQueue |-> queue, newVisited |-> {},
   neighborsFound |-> FALSE, sinkReached |-> FALSE,
   newPath |-> NullPath, newBottleneck |-> NullNumber, threw |-> FALSE]

\* the locals of the LABELING branch that labelNode and the two loops update
Locals(nodes, queue, visited) ==
  [newNodes |-> nodes, newQueue |-> queue, newVisited |-> visited,
   neighborsFound |-> FALSE, sinkReached |-> FALSE,
   newPath |-> NullPath, newBottleneck |-> NullNumber, threw |-> FALSE]

\* labelNode that hands on the predecessor's label flow and ignores the edge
labelNodeUsesPredecessorFlow(loc, uId, uFlow, targetId, direction, flowAvailable) ==
  LET targetIndex == FindIndex(loc.newNodes, LAMBDA n : n.id = targetId)
  IN IF targetIndex # 0 /\ targetId \notin loc.newVisited
     THEN LET labelled == [loc.newNodes EXCEPT ![targetIndex].label =
                             Label(uId, direction, uFlow)]
              marked == [loc EXCEPT !.newNodes = labelled,
                                    !.newVisited = @ \cup {targetId},
                                    !.newQueue = Append(@, targetId),
                                    !.neighborsFound = TRUE]
          IN IF labelled[targetIndex].isSink
             THEN LET bt == Backtrack(labelled, labelled[targetIndex], <<targetId>>)
                  IN IF bt.threw
                     THEN [marked EXCEPT !.sinkReached = TRUE, !.threw = TRUE]
                     ELSE [marked EXCEPT !.sinkReached = TRUE,
                                         !.newPath = bt.path,
                                         !.newBottleneck = labelled[targetIndex].label.flow]
             ELSE marked
     ELSE loc

\* labelNode that labels with the edge's own residual capacity, not the
\* minimum with the predecessor's label flow
labelNodeNoMin(loc, uId, uFlow, targetId, direction, flowAvailable) ==
  LET targetIndex == FindIndex(loc.newNodes, LAMBDA n : n.id = targetId)
  IN IF targetIndex # 0 /\ targetId \notin loc.newVisited
     THEN LET labelled == [loc.newNodes EXCEPT ![targetIndex].label =
                             Label(uId, direction, flowAvailable)]
              marked == [loc EXCEPT !.newNodes = labelled,
                                    !.newVisited = @ \cup {targetId},
                                    !.newQueue = Append(@, targetId),
                                    !.neighborsFound = TRUE]
          IN IF labelled[targetIndex].isSink
             THEN LET bt == Backtrack(labelled, labelled[targetIndex], <<targetId>>)
                  IN IF bt.threw
                     THEN [marked EXCEPT !.sinkReached = TRUE, !.threw = TRUE]
                     ELSE [marked EXCEPT !.sinkReached = TRUE,
                                         !.newPath = bt.path,
                                         !.newBottleneck = labelled[targetIndex].label.flow]
             ELSE marked
     ELSE loc

labelNode(loc, uId, uFlow, targetId, direction, flowAvailable) ==
  LET targetIndex == FindIndex(loc.newNodes, LAMBDA n : n.id = targetId)
  IN IF targetIndex # 0 /\ targetId \notin loc.newVisited
     THEN LET labelled == [loc.newNodes EXCEPT ![targetIndex].label =
                             Label(uId, direction, Min(uFlow, flowAvailable))]
              marked == [loc EXCEPT !.newNodes = labelled,
                                    !.newVisited = @ \cup {targetId},
                                    !.newQueue = Append(@, targetId),
                                    !.neighborsFound = TRUE]
          IN IF labelled[targetIndex].isSink
             THEN LET bt == Backtrack(labelled, labelled[targetIndex], <<targetId>>)
                  IN IF bt.threw
                     THEN [marked EXCEPT !.sinkReached = TRUE, !.threw = TRUE]
                     ELSE [marked EXCEPT !.sinkReached = TRUE,
                                         !.newPath = bt.path,
                                         !.newBottleneck = labelled[targetIndex].label.flow]
             ELSE marked
     ELSE loc

\* forward check that labels through saturated edges too
ForwardCheckIgnoresSaturation(loc, es, i, uId, uFlow) ==
  LET RECURSIVE Go(_, _)
      Go(l, k) ==
        IF k > Len(es) \/ l.threw THEN l
        ELSE Go(IF ~l.sinkReached
                THEN labelNode(l, uId, uFlow, es[k].target, "+", es[k].capacity)
                ELSE l,
                k + 1)
  IN Go(loc, i)

\* edges.filter(e => e.source === uId).forEach(...), from edge i of the filtered list on
RECURSIVE ForwardCheck(_, _, _, _, _)
ForwardCheck(loc, es, i, uId, uFlow) ==
  IF i > Len(es) \/ loc.threw THEN loc
  ELSE ForwardCheck(IF ~loc.sinkReached /\ es[i].flow < es[i].capacity
                    THEN labelNode(loc, uId, uFlow, es[i].target, "+", es[i].capacity - es[i].flow)
                    ELSE loc,
                    es, i + 1, uId, uFlow)

\* backward check that marks the nodes it labels as reached forward
BackwardCheckMarksForward(loc, es, i, uId, uFlow) ==
  LET RECURSIVE Go(_, _)
      Go(l, k) ==
        IF k > Len(es) \/ l.threw THEN l
        ELSE Go(IF ~l.sinkReached /\ es[k].flow > 0
                THEN labelNode(l, uId, uFlow, es[k].source, "+", es[k].flow)
                ELSE l,
                k + 1)
  IN Go(loc, i)

\* a labeling step that never looks at the edges into u
BackwardCheckSkipped(loc, es, i, uId, uFlow) == loc

\* edges.filter(e => e.target === uId).forEach(...)
RECURSIVE BackwardCheck(_, _, _, _, _)
BackwardCheck(loc, es, i, uId, uFlow) ==
  IF i > Len(es) \/ loc.threw THEN loc
  ELSE BackwardCheck(IF ~loc.sinkReached /\ es[i].flow > 0
                     THEN labelNode(loc, uId, uFlow, es[i].source, "-", es[i].flow)
                     ELSE loc,
                     es, i + 1, uId, uFlow)

\* augmentation loop that looks for the edge v->u first and only then for u->v
AugmentPrefersBackward(newEdges, pathFound, bottleneck, i) ==
  LET RECURSIVE Go(_, _)
      Go(es, k) ==
        IF k > Len(pathFound) - 1 THEN es
        ELSE LET uId == pathFound[k]
                 vId == pathFound[k + 1]
                 forwardIdx == FindIndex(es, LAMBDA e : e.source = uId /\ e.target = vId)
                 backwardIdx == FindIndex(es, LAMBDA e : e.source = vId /\ e.target = uId)
             IN Go(IF backwardIdx # 0
                   THEN [es EXCEPT ![backwardIdx].flow = @ - bottleneck]
                   ELSE IF forwardIdx # 0
                        THEN [es EXCEPT ![forwardIdx].flow = @ + bottleneck]
                        ELSE es,
                   k + 1)
  IN Go(newEdges, i)

\* the for loop of the AUGMENTING branch, from pair i of pathFound on
RECURSIVE Augment(_, _, _, _)
Augment(newEdges, pathFound, bottleneck, i) ==
  IF i > Len(pathFound) - 1 THEN newEdges
  ELSE LET uId == pathFound[i]
           vId == pathFound[i + 1]
           forwardIdx == FindIndex(newEdges, LAMBDA e : e.source = uId /\ e.target = vId)
           backwardIdx == FindIndex(newEdges, LAMBDA e : e.source = vId /\ e.target = uId)
       IN Augment(IF forwardIdx # 0
                  THEN [newEdges EXCEPT ![forwardIdx].flow = @ + bottleneck]
                  ELSE IF backwardIdx # 0
                       THEN [newEdges EXCEPT ![backwardIdx].flow = @ - bottleneck]
                       ELSE newEdges,
                  pathFound, bottleneck, i + 1)

\* IDLE branch that opens the round with an empty visited set
StepIdleEmptyVisited(currentGraph, currentState) ==
  LET newNodes == clearLabels(currentGraph.nodes)
      srcIdx == FindIndex(newNodes, LAMBDA n : n.isSource)
  IN IF srcIdx = 0 THEN Returned(currentGraph, currentState)
     ELSE Returned([currentGraph EXCEPT !.nodes = newNodes],
                   [currentState EXCEPT !.phase = "LABELING",
                                        !.queue = <<newNodes[srcIdx].id>>,
                                        !.visited = {},
                                        !.pathFound = NullPath,
                                        !.bottleneck = NullNumber,
                                        !.logs = Append(@, LogStart)])

\* IDLE branch that starts the log anew instead of appending to it
StepIdleRestartsLogs(currentGraph, currentState) ==
  LET newNodes == clearLabels(currentGraph.nodes)
      srcIdx == FindIndex(newNodes, LAMBDA n : n.isSource)
  IN IF srcIdx = 0 THEN Returned(currentGraph, currentState)
     ELSE Returned([currentGraph EXCEPT !.nodes = newNodes],
                   [currentState EXCEPT !.phase = "LABELING",
                                        !.queue = <<newNodes[srcIdx].id>>,
                                        !.visited = {newNodes[srcIdx].id},
                                        !.pathFound = NullPath,
                                        !.bottleneck = NullNumber,
                                        !.logs = <<LogStart>>])

\* IDLE branch without the source safety check: the round is opened with an empty queue
StepIdleNoSafetyCheck(currentGraph, currentState) ==
  LET newNodes == clearLabels(currentGraph.nodes)
      srcIdx == FindIndex(newNodes, LAMBDA n : n.isSource)
      srcIds == IF srcIdx = 0 THEN <<>> ELSE <<newNodes[srcIdx].id>>
  IN Returned([currentGraph EXCEPT !.nodes = newNodes],
              [currentState EXCEPT !.phase = "LABELING",
                                   !.queue = srcIds,
                                   !.visited = {srcIds[i] : i \in 1..Len(srcIds)},
                                   !.pathFound = NullPath,
                                   !.bottleneck = NullNumber,
                                   !.logs = Append(@, LogStart)])

\* IDLE branch that also clears the edge flows when it clears the labels
StepIdleResetsFlows(currentGraph, currentState) ==
  LET newNodes == clearLabels(currentGraph.nodes)
      srcIdx == FindIndex(newNodes, LAMBDA n : n.isSource)
  IN IF srcIdx = 0 THEN Returned(currentGraph, currentState)
     ELSE Returned([nodes |-> newNodes,
                    edges |-> Map(currentGraph.edges, LAMBDA e : [e EXCEPT !.flow = 0])],
                   [currentState EXCEPT !.phase = "LABELING",
                                        !.queue = <<newNodes[srcIdx].id>>,
                                        !.visited = {newNodes[srcIdx].id},
                                        !.pathFound = NullPath,
                                        !.bottleneck = NullNumber,
                                        !.logs = Append(@, LogStart)])

StepIdle(currentGraph, currentState) ==
  LET newNodes == clearLabels(currentGraph.nodes)
      srcIdx == FindIndex(newNodes, LAMBDA n : n.isSource)
  IN IF srcIdx = 0 THEN Returned(currentGraph, currentState)
     ELSE Returned([currentGraph EXCEPT !.nodes = newNodes],
                   [currentState EXCEPT !.phase = "LABELING",
                                        !.queue = <<newNodes[srcIdx].id>>,
                                        !.visited = {newNodes[srcIdx].id},
                                        !.pathFound = NullPath,
                                        !.bottleneck = NullNumber,
                                        !.logs = Append(@, LogStart)])

StepLabeling(currentGraph, currentState) ==
  IF Len(currentState.queue) = 0
  THEN Returned(currentGraph,
                [currentState EXCEPT !.phase = "FINISHED",
                                     !.logs = Append(@, LogFinished(currentState.maxFlow))])
  ELSE LET nodes == currentGraph.nodes
           edges == currentGraph.edges
           uId == currentState.queue[1]
           u == nodes[FindIndex(nodes, LAMBDA n : n.id = uId)]
           start == Locals(nodes, Tail(currentState.queue), currentState.visited)
           fwd == ForwardCheck(start, SelectSeq(edges, LAMBDA e : e.source = uId), 1, uId, u.label.flow)
           loc == BackwardCheck(fwd, SelectSeq(edges, LAMBDA e : e.target = uId), 1, uId, u.label.flow)
       IN IF loc.threw THEN Thrown(currentGraph, currentState)
          ELSE IF loc.sinkReached
          THEN Returned([currentGraph EXCEPT !.nodes = loc.newNodes],
                        [currentState EXCEPT !.phase = "AUGMENTING",
                                             !.queue = <<>>,
                                             !.pathFound = loc.newPath,
                                             !.bottleneck = loc.newBottleneck,
                                             !.visited = loc.newVisited,
                                             !.logs = Append(@, LogSink(loc.newBottleneck))])
          ELSE Returned([currentGraph EXCEPT !.nodes = loc.newNodes],
                        [currentState EXCEPT !.queue = loc.newQueue,
                                             !.visited = loc.newVisited,
                                             !.logs = IF loc.neighborsFound
                                                      THEN Append(@, LogChecked(uId)) ELSE @])

\* AUGMENTING branch that clears the labels it announces as cleared
StepAugmentingClearsLabels(currentGraph, currentState) ==
  IF currentState.pathFound = NullPath \/ currentState.bottleneck = NullNumber
  THEN Returned(currentGraph, currentState)
  ELSE LET bottleneck == currentState.bottleneck
           newEdges == Augment(currentGraph.edges, currentState.pathFound, bottleneck, 1)
       IN Returned([nodes |-> Map(currentGraph.nodes, LAMBDA n : [n EXCEPT !.label = NoLabel]),
                    edges |-> newEdges],
                   [currentState EXCEPT !.phase = "IDLE",
                                        !.maxFlow = @ + bottleneck,
                                        !.pathFound = NullPath,
                                        !.bottleneck = NullNumber,
                                        !.logs = Append(@, LogAugmented(bottleneck, currentState.maxFlow + bottleneck))])

\* AUGMENTING branch that goes straight on to LABELING instead of back to IDLE
StepAugmentingToLabeling(currentGraph, currentState) ==
  IF currentState.pathFound = NullPath \/ currentState.bottleneck = NullNumber
  THEN Returned(currentGraph, currentState)
  ELSE LET bottleneck == currentState.bottleneck
           newEdges == Augment(currentGraph.edges, currentState.pathFound, bottleneck, 1)
       IN Returned([currentGraph EXCEPT !.edges = newEdges],
                   [currentState EXCEPT !.phase = "LABELING",
                                        !.maxFlow = @ + bottleneck,
                                        !.pathFound = NullPath,
                                        !.bottleneck = NullNumber,
                                        !.logs = Append(@, LogAugmented(bottleneck, currentState.maxFlow + bottleneck))])

\* AUGMENTING branch that leaves pathFound in the state it returns
StepAugmentingKeepsPath(currentGraph, currentState) ==
  IF currentState.pathFound = NullPath \/ currentState.bottleneck = NullNumber
  THEN Returned(currentGraph, currentState)
  ELSE LET bottleneck == currentState.bottleneck
           newEdges == Augment(currentGraph.edges, currentState.pathFound, bottleneck, 1)
       IN Returned([currentGraph EXCEPT !.edges = newEdges],
                   [currentState EXCEPT !.phase = "IDLE",
                                        !.maxFlow = @ + bottleneck,
                                        !.bottleneck = NullNumber,
                                        !.logs = Append(@, LogAugmented(bottleneck, currentState.maxFlow + bottleneck))])

\* AUGMENTING branch that stores the bottleneck as the new maxFlow instead of adding it
StepAugmentingOverwrites(currentGraph, currentState) ==
  IF currentState.pathFound = NullPath \/ currentState.bottleneck = NullNumber
  THEN Returned(currentGraph, currentState)
  ELSE LET bottleneck == currentState.bottleneck
           newEdges == Augment(currentGraph.edges, currentState.pathFound, bottleneck, 1)
       IN Returned([currentGraph EXCEPT !.edges = newEdges],
                   [currentState EXCEPT !.phase = "IDLE",
                                        !.maxFlow = bottleneck,
                                        !.pathFound = NullPath,
                                        !.bottleneck = NullNumber,
                                        !.logs = Append(@, LogAugmented(bottleneck, bottleneck))])

StepAugmenting(currentGraph, currentState) ==
  IF currentState.pathFound = NullPath \/ currentState.bottleneck = NullNumber
  THEN Returned(currentGraph, currentState)
  ELSE LET bottleneck == currentState.bottleneck
           newEdges == Augment(currentGraph.edges, currentState.pathFound, bottleneck, 1)
       IN Returned([currentGraph EXCEPT !.edges = newEdges],
                   [currentState EXCEPT !.phase = "IDLE",
                                        !.maxFlow = @ + bottleneck,
                                        !.pathFound = NullPath,
                                        !.bottleneck = NullNumber,
                                        !.logs = Append(@, LogAugmented(bottleneck, currentState.maxFlow + bottleneck))])

\* stepAlgorithm whose first branch takes IDLE only, so that FINISHED falls through
stepAlgorithmFinishedNoOp(currentGraph, currentState) ==
  IF currentState.phase = "IDLE"
  THEN StepIdle(currentGraph, currentState)
  ELSE IF currentState.phase = "LABELING"
  THEN StepLabeling(currentGraph, currentState)
  ELSE IF currentState.phase = "AUGMENTING"
  THEN StepAugmenting(currentGraph, currentState)
  ELSE Returned(currentGraph, currentState)

stepAlgorithm(currentGraph, currentState) ==
  IF currentState.phase = "IDLE" \/ currentState.phase = "FINISHED"
  THEN StepIdle(currentGraph, currentState)
  ELSE IF currentState.phase = "LABELING"
  THEN StepLabeling(currentGraph, currentState)
  ELSE IF currentState.phase = "AUGMENTING"
  THEN StepAugmenting(currentGraph, currentState)
  ELSE Returned(currentGraph, currentState)

(* ---------------------------------------------------------------------- *)
(* The application: handleStep commits what stepAlgorithm returns; when    *)
(* stepAlgorithm throws, neither setGraph nor setAlgoState runs.           *)
(* ---------------------------------------------------------------------- *)
\* no interval is installed; the closure fields only keep the record's shape
NoInterval == [armed |-> FALSE, graph |-> [nodes |-> <<>>, edges |-> <<>>], algoState |-> initializeAlgorithm]

\* an interval whose callback is the handleStep that closed over (g, st)
Armed(g, st) == [armed |-> TRUE, graph |-> g, algoState |-> st]

Init ==
  /\ graph \in InitialGraphs
  /\ algoState = initializeAlgorithm
  /\ threw = FALSE
  /\ isAutoPlaying = FALSE
  /\ interval = NoInterval
  /\ aiLoading = FALSE
  /\ aiMessage = NullId
  /\ edits = 0

handleStep ==
  /\ Len(algoState.logs) < MaxLogs
  /\ LET result == stepAlgorithm(graph, algoState)
     IN /\ graph' = result.graph
        /\ algoState' = result.state
        /\ threw' = result.threw
  /\ UNCHANGED <<isAutoPlaying, interval, aiLoading, aiMessage, edits>>

Next == handleStep

Spec == Init /\ [][Next]_vars

(* ---------------------------------------------------------------------- *)
(* The application with its editor, its auto-play timer and its AI         *)
(* scenario generator (App.tsx).  A handler runs to completion; the state  *)
(* it sets is committed when it returns.  After a click the auto-play      *)
(* effect runs with the commit; after a timer callback or the completion   *)
(* of the asynchronous scenario request it runs later, as flushEffects,    *)
(* and before the next click is handled.                                   *)
(* ---------------------------------------------------------------------- *)
\* a graph as geminiService.generateGraphScenario returns it: ids 's' and 't'
\* flagged, edge ids e0, e1, ..., flows 0
AIGraphs == {SingleEdgeGraph}

\* the updater resetAlgo hands to setGraph
resetAlgoGraph(prev) ==
  [nodes |-> Map(prev.nodes, LAMBDA n : [n EXCEPT !.label = NoLabel]),
   edges |-> Map(prev.edges, LAMBDA e : [e EXCEPT !.flow = 0])]

\* auto-play effect whose FINISHED branch leaves isAutoPlaying as it is
autoPlayEffectKeepsAutoPlaying(g, st, auto) ==
  IF auto /\ st.phase # "FINISHED"
  THEN [interval |-> Armed(g, st), isAutoPlaying |-> auto]
  ELSE [interval |-> NoInterval, isAutoPlaying |-> auto]

\* the auto-play effect for the committed (g, st, auto): the interval it leaves
\* installed and the isAutoPlaying it leaves behind
autoPlayEffect(g, st, auto) ==
  IF auto /\ st.phase # "FINISHED"
  THEN [interval |-> Armed(g, st), isAutoPlaying |-> auto]
  ELSE [interval |-> NoInterval,
        isAutoPlaying |-> IF st.phase = "FINISHED" THEN FALSE ELSE auto]

\* the effect has run for the committed state
EffectsFlushed ==
  LET e == autoPlayEffect(graph, algoState, isAutoPlaying)
  IN interval = e.interval /\ isAutoPlaying = e.isAutoPlaying

\* commit of a handler's state with the effect run
Commit(g, st, auto) ==
  LET e == autoPlayEffect(g, st, auto)
  IN /\ graph' = g
     /\ algoState' = st
     /\ isAutoPlaying' = e.isAutoPlaying
     /\ interval' = e.interval

\* the Step button: enabled unless auto-playing or FINISHED (ControlPanel)
clickStep ==
  /\ EffectsFlushed
  /\ ~isAutoPlaying /\ algoState.phase # "FINISHED"
  /\ Len(algoState.logs) < MaxAppLogs
  /\ LET result == stepAlgorithm(graph, algoState)
     IN /\ Commit(result.graph, result.state, isAutoPlaying)
        /\ threw' = result.threw
  /\ UNCHANGED <<aiLoading, aiMessage, edits>>

\* a tick of the interval: the handleStep it holds steps the pair it closed
\* over and sets the result (an exception sets nothing); the interval stays
\* until the effect runs
intervalTick ==
  /\ interval.armed
  /\ Len(interval.algoState.logs) < MaxAppLogs
  /\ LET result == stepAlgorithm(interval.graph, interval.algoState)
     IN /\ threw' = result.threw
        /\ IF result.threw
           THEN UNCHANGED <<graph, algoState>>
           ELSE graph' = result.graph /\ algoState' = result.state
  /\ UNCHANGED <<isAutoPlaying, interval, aiLoading, aiMessage, edits>>

\* the effect run that a commit outside a click left pending
flushEffects ==
  /\ ~EffectsFlushed
  /\ Commit(graph, algoState, isAutoPlaying)
  /\ UNCHANGED <<threw, aiLoading, aiMessage, edits>>

\* the Auto button: enabled unless FINISHED (ControlPanel)
toggleAutoPlay ==
  /\ EffectsFlushed
  /\ algoState.phase # "FINISHED"
  /\ Commit(graph, algoState, ~isAutoPlaying)
  /\ UNCHANGED <<threw, aiLoading, aiMessage, edits>>

handleReset ==
  /\ EffectsFlushed
  /\ Commit(resetAlgoGraph(graph), initializeAlgorithm, FALSE)
  /\ aiMessage' = NullId
  /\ UNCHANGED <<threw, aiLoading, edits>>

handleClear ==
  /\ EffectsFlushed
  /\ Commit([nodes |-> <<>>, edges |-> <<>>], initializeAlgorithm, FALSE)
  /\ UNCHANGED <<threw, aiLoading, aiMessage, edits>>

\* handleAIGenerate up to its await
aiStart ==
  /\ EffectsFlushed
  /\ ~aiLoading
  /\ aiLoading' = TRUE
  /\ aiMessage' = NullId
  /\ UNCHANGED <<graph, algoState, threw, isAutoPlaying, interval, edits>>

\* handleAIGenerate after its await, the request fulfilled: handleReset(), then
\* setGraph(result.graph); the interval stays until the effect runs
aiComplete ==
  /\ aiLoading
  /\ \E g \in AIGraphs :
       /\ graph' = g
       /\ algoState' = initializeAlgorithm
       /\ isAutoPlaying' = FALSE
  /\ aiLoading' = FALSE
  /\ aiMessage' = "generated"
  /\ UNCHANGED <<threw, interval, edits>>

\* handleAIGenerate after its await, the request rejected
aiFail ==
  /\ aiLoading
  /\ aiLoading' = FALSE
  /\ aiMessage' = "failed"
  /\ UNCHANGED <<graph, algoState, threw, isAutoPlaying, interval, edits>>

\* Date.now() of the edit: later than every stamp before it
Now == 1000 + edits

\* what an editing handler commits: the edited graph, cleared and with a fresh
\* engine state when the handler calls resetAlgo
CommitEdit(g, callsReset) ==
  /\ IF callsReset
     THEN Commit(resetAlgoGraph(g), initializeAlgorithm, isAutoPlaying)
     ELSE Commit(g, algoState, isAutoPlaying)
  /\ edits' = edits + 1
  /\ UNCHANGED <<threw, aiLoading, aiMessage>>

\* a click on the empty canvas with the add-node tool (the canvas is read-only while auto-playing)
addNode ==
  /\ EffectsFlushed /\ ~isAutoPlaying /\ edits < MaxEdits
  /\ LET ids == {graph.nodes[i].id : i \in 1..Len(graph.nodes)}
         nextIdx == CHOOSE k \in 1..(Len(graph.nodes) + 1) :
                      /\ ("v" \o ToString(k)) \notin ids
                      /\ \A j \in 1..(k - 1) : ("v" \o ToString(j)) \in ids
     IN CommitEdit([graph EXCEPT !.nodes = Append(@, MkNode("v" \o ToString(nextIdx), FALSE, FALSE))],
                   algoState.phase # "IDLE")

\* a drag from one node to another with the add-edge tool; the capacity is random
addEdge ==
  /\ EffectsFlushed /\ ~isAutoPlaying /\ edits < MaxEdits
  /\ \E i, j \in 1..Len(graph.nodes), capacity \in 1..MaxCap :
       LET sourceId == graph.nodes[i].id
           targetId == graph.nodes[j].id
       IN /\ sourceId # targetId
          /\ ~\E k \in 1..Len(graph.edges) :
                graph.edges[k].source = sourceId /\ graph.edges[k].target = targetId
          /\ CommitEdit([graph EXCEPT !.edges =
                           Append(@, MkEdge("e" \o ToString(Now), sourceId, targetId, capacity))],
                        algoState.phase # "IDLE")

\* the delete tool on a node, or the delete button on a selected node
deleteNode ==
  /\ EffectsFlushed /\ edits < MaxEdits
  /\ \E i \in 1..Len(graph.nodes) :
       LET id == graph.nodes[i].id
       IN CommitEdit([nodes |-> SelectSeq(graph.nodes, LAMBDA n : n.id # id),
                      edges |-> SelectSeq(graph.edges, LAMBDA e : e.source # id /\ e.target # id)],
                     TRUE)

\* the delete tool on an edge, or the delete button on a selected edge
deleteEdge ==
  /\ EffectsFlushed /\ edits < MaxEdits
  /\ \E i \in 1..Len(graph.edges) :
       LET id == graph.edges[i].id
       IN CommitEdit([graph EXCEPT !.edges = SelectSeq(@, LAMBDA e : e.id # id)],
                     algoState.phase # "IDLE")

\* setSource that leaves the sink flag of the new source as it is
setSourceKeepsSink ==
  /\ EffectsFlushed /\ ~isAutoPlaying /\ edits < MaxEdits
  /\ \E i \in 1..Len(graph.nodes) :
       LET id == graph.nodes[i].id
       IN CommitEdit([graph EXCEPT !.nodes =
                        Map(@, LAMBDA n : [n EXCEPT !.isSource = (n.id = id)])],
                     TRUE)

setSource ==
  /\ EffectsFlushed /\ ~isAutoPlaying /\ edits < MaxEdits
  /\ \E i \in 1..Len(graph.nodes) :
       LET id == graph.nodes[i].id
       IN CommitEdit([graph EXCEPT !.nodes =
                        Map(@, LAMBDA n : [n EXCEPT !.isSource = (n.id = id),
                                                    !.isSink = IF n.id = id THEN FALSE ELSE n.isSink])],
                     TRUE)

setSink ==
  /\ EffectsFlushed /\ ~isAutoPlaying /\ edits < MaxEdits
  /\ \E i \in 1..Len(graph.nodes) :
       LET id == graph.nodes[i].id
       IN CommitEdit([graph EXCEPT !.nodes =
                        Map(@, LAMBDA n : [n EXCEPT !.isSink = (n.id = id),
                                                    !.isSource = IF n.id = id THEN FALSE ELSE n.isSource])],
                     TRUE)

\* the application after construction: the default graph, a fresh engine state
AppInit ==
  /\ graph = INITIAL_GRAPH
  /\ algoState = initializeAlgorithm
  /\ threw = FALSE
  /\ isAutoPlaying = FALSE
  /\ interval = NoInterval
  /\ aiLoading = FALSE
  /\ aiMessage = NullId
  /\ edits = 0

AppNext ==
  \/ clickStep \/ intervalTick \/ flushEffects \/ toggleAutoPlay
  \/ handleReset \/ handleClear
  \/ aiStart \/ aiComplete \/ aiFail
  \/ addNode \/ addEdge \/ deleteNode \/ deleteEdge \/ setSource \/ setSink

AppSpec == AppInit /\ [][AppNext]_vars

(* ---------------------------------------------------------------------- *)
(* Reference notions the properties are stated with                        *)
(* ---------------------------------------------------------------------- *)
NodeIdsOf(g) == {g.nodes[i].id : i \in 1..Len(g.nodes)}

SourceIds(g) == {g.nodes[i].id : i \in {j \in 1..Len(g.nodes) : g.nodes[j].isSource}}

SinkIds(g) == {g.nodes[i].id : i \in {j \in 1..Len(g.nodes) : g.nodes[j].isSink}}

EdgeIndices(g) == 1..Len(g.edges)

\* a residual step u->v: an edge u->v below capacity or an edge v->u carrying flow
ResidualStep(g, u, v) ==
  \E i \in EdgeIndices(g) :
    \/ g.edges[i].source = u /\ g.edges[i].target = v /\ g.edges[i].flow < g.edges[i].capacity
    \/ g.edges[i].source = v /\ g.edges[i].target = u /\ g.edges[i].flow > 0

\* nodes reachable from the set reached by residual steps (a search of its own, not the labels)
RECURSIVE ResidualReach(_, _)
ResidualReach(g, reached) ==
  LET more == reached \cup {v \in NodeIdsOf(g) : \E u \in reached : ResidualStep(g, u, v)}
  IN IF more = reached THEN reached ELSE ResidualReach(g, more)

\* total capacity of the edges that leave the node set S
RECURSIVE CutCapacity(_, _, _)
CutCapacity(g, S, i) ==
  IF i > Len(g.edges) THEN 0
  ELSE (IF g.edges[i].source \in S /\ g.edges[i].target \notin S THEN g.edges[i].capacity ELSE 0)
       + CutCapacity(g, S, i + 1)

\* capacity of a minimum cut between src and snk
MinCut(g, src, snk) ==
  LET cuts == {CutCapacity(g, S \cup {src}, 1) : S \in SUBSET (NodeIdsOf(g) \ {src, snk})}
  IN CHOOSE c \in cuts : \A d \in cuts : c <= d

\* residual capacity of the path step a->b: what is left on the edge a->b when it
\* is below capacity, otherwise the flow that can be cancelled on the edge b->a
StepResidual(g, a, b) ==
  LET fwd == FindIndex(g.edges, LAMBDA e : e.source = a /\ e.target = b /\ e.flow < e.capacity)
      bwd == FindIndex(g.edges, LAMBDA e : e.source = b /\ e.target = a /\ e.flow > 0)
  IN IF fwd # 0 THEN g.edges[fwd].capacity - g.edges[fwd].flow
     ELSE IF bwd # 0 THEN g.edges[bwd].flow
     ELSE 0

RECURSIVE PathMinResidual(_, _, _)
PathMinResidual(g, path, i) ==
  IF i > Len(path) - 1 THEN Infinity
  ELSE Min(StepResidual(g, path[i], path[i + 1]), PathMinResidual(g, path, i + 1))

\* the edge list without the flows: ids, endpoints and capacities
Topology(g) == Map(g.edges, LAMBDA e : [e EXCEPT !.flow = 0])

Unlabelled(g) == [g EXCEPT !.nodes = Map(g.nodes, LAMBDA n : [n EXCEPT !.label = NoLabel])]

IsDefaultGraph == Unlabelled(graph).nodes = INITIAL_GRAPH.nodes /\ Topology(graph) = INITIAL_GRAPH.edges

(* ---------------------------------------------------------------------- *)
(* Properties                                                              *)
(* ---------------------------------------------------------------------- *)

\* C1: capacity invariant - every edge has 0 <= flow <= capacity after any
\* sequence of steps, also on graphs that hold both a->b and b->a.
C1_CapacityInvariant ==
  \A i \in EdgeIndices(graph) : 0 <= graph.edges[i].flow /\ graph.edges[i].flow <= graph.edges[i].capacity

\* C2: max-flow correctness - with one source and one sink, at FINISHED
\* maxFlow equals the capacity of a minimum source/sink cut.
C2_MaxFlowIsMinCut ==
  (algoState.phase = "FINISHED" /\ Cardinality(SourceIds(graph)) = 1 /\ Cardinality(SinkIds(graph)) = 1)
    => algoState.maxFlow = MinCut(graph, CHOOSE x \in SourceIds(graph) : TRUE,
                                         CHOOSE x \in SinkIds(graph) : TRUE)

\* C3: at FINISHED no sink is reachable from the source in the residual graph
\* of the current flows, by an independent reachability search.
C3_NoResidualPathAtFinished ==
  algoState.phase = "FINISHED" => ResidualReach(graph, SourceIds(graph)) \cap SinkIds(graph) = {}

C3_Witness ==
  /\ algoState.phase = "FINISHED"
  /\ algoState.maxFlow > 0
  /\ SinkIds(graph) # {}
  /\ \E i \in EdgeIndices(graph) : graph.edges[i].flow < graph.edges[i].capacity

\* C4 as stated: a step on a FINISHED (graph, state) returns the input unchanged.
C4_FinishedIdempotent ==
  algoState.phase = "FINISHED" => stepAlgorithm(graph, algoState) = Returned(graph, algoState)

\* C4 amended: a step on a FINISHED (graph, state) opens a new labeling round
\* (phase LABELING, queue and visited hold the source, path and bottleneck
\* absent, one "start" log appended, only the source labelled) and leaves
\* maxFlow and every edge as they were.
C4_FinishedRestartsLabeling ==
  algoState.phase = "FINISHED" =>
    LET r == stepAlgorithm(graph, algoState)
    IN /\ ~r.threw
       /\ r.state.phase = "LABELING"
       /\ r.state.maxFlow = algoState.maxFlow
       /\ r.graph.edges = graph.edges
       /\ \E src \in SourceIds(graph) : r.state.queue = <<src>> /\ r.state.visited = {src}
       /\ r.state.pathFound = NullPath /\ r.state.bottleneck = NullNumber
       /\ r.state.logs = Append(algoState.logs, LogStart)
       /\ r.graph.nodes = clearLabels(Unlabelled(graph).nodes)

\* a round opened from FINISHED: the last two log entries are "finished", "start"
C4_Witness ==
  /\ algoState.phase = "LABELING"
  /\ Len(algoState.logs) >= 2
  /\ algoState.logs[Len(algoState.logs) - 1].kind = "finished"
  /\ algoState.logs[Len(algoState.logs)].kind = "start"
  /\ algoState.maxFlow > 0

\* C5: the step that labels the sink completes normally, and pathFound runs
\* from the isSource node to the sink, whatever the source's id is.
C5_PathFromSourceToSink ==
  /\ ~threw
  /\ algoState.phase = "AUGMENTING" =>
       /\ algoState.pathFound # NullPath
       /\ algoState.pathFound[1] \in SourceIds(graph)
       /\ algoState.pathFound[Len(algoState.pathFound)] \in SinkIds(graph)

\* C6: path validity - in AUGMENTING every consecutive pair of pathFound is a
\* residual step and bottleneck is the minimum residual capacity along the path.
C6_PathValidity ==
  algoState.phase = "AUGMENTING" =>
    /\ \A i \in 1..(Len(algoState.pathFound) - 1) :
         ResidualStep(graph, algoState.pathFound[i], algoState.pathFound[i + 1])
    /\ algoState.bottleneck = PathMinResidual(graph, algoState.pathFound, 1)

\* C7: monotonicity - maxFlow never decreases from one step to the next.
C7_MaxFlowMonotonic == [][algoState'.maxFlow >= algoState.maxFlow]_vars

\* right after the second or a later augmentation
C7_Witness ==
  /\ algoState.phase = "IDLE"
  /\ algoState.logs[Len(algoState.logs)].kind = "augmented"
  /\ algoState.logs[Len(algoState.logs)].total > algoState.logs[Len(algoState.logs)].amount

\* C8: on the six-node default graph stepping reaches FINISHED and maxFlow is
\* 19 there: no step throws, FINISHED is logged by the 25th log entry at the
\* latest, and whenever the phase is FINISHED maxFlow = 19.
C8_DefaultGraphReaches19 ==
  IsDefaultGraph =>
    /\ ~threw
    /\ algoState.phase = "FINISHED" => algoState.maxFlow = 19
    /\ (\A i \in 1..Len(algoState.logs) : algoState.logs[i].kind # "finished")
         => Len(algoState.logs) < 25 /\ algoState.phase # "FINISHED"

C8_Witness == IsDefaultGraph /\ algoState.phase = "FINISHED" /\ algoState.maxFlow = 19

\* C9: without a source a step in IDLE returns its inputs, so after any number
\* of calls graph and state are still the initial ones.
C9_MissingSourceNoOp ==
  (algoState.phase = "IDLE" /\ SourceIds(graph) = {}) =>
    /\ stepAlgorithm(graph, algoState) = Returned(graph, algoState)
    /\ algoState = initializeAlgorithm
    /\ graph = Unlabelled(graph)
    /\ ~threw

C9_Witness ==
  /\ algoState.phase = "IDLE" /\ SourceIds(graph) = {} /\ SinkIds(graph) # {}
  /\ Len(graph.edges) = MaxEdges

\* C10: a step taken in IDLE, LABELING or FINISHED returns the edge list it
\* was given (ids, endpoints, capacities and flows).
C10_EdgesChangeOnlyInAugmenting ==
  [][algoState.phase # "AUGMENTING" => graph'.edges = graph.edges]_vars

\* a labeling round under way on edges that already carry flow
C10_Witness ==
  /\ algoState.phase = "LABELING"
  /\ Len(algoState.queue) > 0
  /\ \E i \in EdgeIndices(graph) : graph.edges[i].flow > 0

\* the node list without the labels: ids and source/sink flags, in array order
NodeFrame(g) == Map(g.nodes, LAMBDA n : [id |-> n.id, isSource |-> n.isSource, isSink |-> n.isSink])

\* C11: a step never edits topology - the returned graph has the same node
\* ids with the same isSource/isSink flags and the same edges (id, source,
\* target, capacity), in the same order; only labels and flows may differ.
C11_TopologyPreserved ==
  [][NodeFrame(graph') = NodeFrame(graph) /\ Topology(graph') = Topology(graph)]_vars

\* a sink labelled through a chain of at least three nodes while some edge carries flow
C11_Witness ==
  /\ algoState.phase = "AUGMENTING"
  /\ Len(algoState.pathFound) >= 3
  /\ \E i \in EdgeIndices(graph) : graph.edges[i].flow > 0
  /\ \E i \in 1..Len(graph.nodes) : graph.nodes[i].isSink /\ graph.nodes[i].label # NoLabel

\* C12: initializeAlgorithm() yields phase IDLE, maxFlow 0, an empty queue, an
\* empty visited set, no pathFound, no bottleneck and exactly one log entry,
\* the initialization message.
C12_InitializeAlgorithm ==
  algoState = initializeAlgorithm =>
  LET st == algoState
  IN /\ st.phase = "IDLE" /\ st.maxFlow = 0
     /\ st.queue = <<>> /\ st.visited = {}
     /\ st.pathFound = NullPath /\ st.bottleneck = NullNumber
     /\ Len(st.logs) = 1 /\ st.logs[1] = LogInit

\* the application's state right after construction, on the default graph
C12_Witness == algoState = initializeAlgorithm /\ graph = INITIAL_GRAPH

IsSingleEdgeGraph ==
  NodeFrame(graph) = NodeFrame(SingleEdgeGraph) /\ Topology(graph) = SingleEdgeGraph.edges

\* ids of the nodes that carry a label
LabelledIds(g) == {g.nodes[i].id : i \in {j \in 1..Len(g.nodes) : g.nodes[j].label # NoLabel}}

\* C13: single-edge scenario (s->t, capacity 5).  The run is told by its log:
\* IDLE, then LABELING with s queued, one labeling step into AUGMENTING with
\* pathFound = [s, t] and bottleneck 5, one augmenting step giving maxFlow 5
\* and flow 5, then a round that labels no node beyond s and ends FINISHED
\* with maxFlow 5.
C13_SingleEdgeScenario ==
  IsSingleEdgeGraph =>
    LET n == Len(algoState.logs)
        st == algoState
    IN /\ ~threw
       /\ n = 1 => st.phase = "IDLE" /\ st.maxFlow = 0
       /\ n = 2 => st.phase = "LABELING" /\ st.queue = <<"s">> /\ graph.edges[1].flow = 0
       /\ n = 3 => /\ st.phase = "AUGMENTING" /\ st.pathFound = <<"s", "t">>
                   /\ st.bottleneck = 5 /\ st.logs[3] = LogSink(5)
       /\ n = 4 => /\ st.phase = "IDLE" /\ st.maxFlow = 5 /\ graph.edges[1].flow = 5
                   /\ st.logs[4] = LogAugmented(5, 5)
       /\ n = 5 => /\ st.phase = "LABELING" /\ st.maxFlow = 5 /\ graph.edges[1].flow = 5
                   /\ LabelledIds(graph) = {"s"} /\ st.visited = {"s"}
       /\ n = 6 => /\ st.phase = "FINISHED" /\ st.maxFlow = 5 /\ graph.edges[1].flow = 5
                   /\ st.logs[6] = LogFinished(5)

C13_Witness ==
  /\ IsSingleEdgeGraph /\ algoState.phase = "FINISHED"
  /\ Len(algoState.logs) = 6 /\ algoState.maxFlow = 5

\* C14: in every state reached by stepping from an unlabelled graph and
\* initializeAlgorithm(), visited is exactly the set of ids of labelled nodes.
C14_VisitedIsLabelled == algoState.visited = LabelledIds(graph)

\* a second or later labeling round with at least three nodes labelled
C14_Witness ==
  /\ algoState.phase = "LABELING" /\ algoState.maxFlow > 0
  /\ Cardinality(algoState.visited) >= 3

\* C15: after every step each id of the queue is in visited, the queue has no
\* duplicates, and within a labeling round an id enters the queue only if it
\* was not visited before the step (so no expanded node is queued again); a
\* step that throws commits nothing.
C15_QueueDiscipline ==
  [][LET q == algoState'.queue
     IN /\ \A i \in 1..Len(q) : q[i] \in algoState'.visited
        /\ \A i, j \in 1..Len(q) : i # j => q[i] # q[j]
        /\ (algoState.phase = "LABELING" /\ algoState'.phase = "LABELING" /\ ~threw') =>
             /\ \A i \in 1..Len(q) :
                  \/ \E k \in 2..Len(algoState.queue) : algoState.queue[k] = q[i]
                  \/ q[i] \notin algoState.visited
             /\ algoState.visited \subseteq algoState'.visited]_vars

\* at least two nodes wait in the queue while at least two others were expanded
C15_Witness ==
  /\ algoState.phase = "LABELING"
  /\ Len(algoState.queue) >= 2
  /\ Cardinality(algoState.visited) >= Len(algoState.queue) + 2

\* C16: in every state whose phase is IDLE or FINISHED no node carries a label.
C16_NoLabelBetweenRounds ==
  algoState.phase \in {"IDLE", "FINISHED"} => LabelledIds(graph) = {}

\* C17: pathFound and bottleneck are both present or both absent, and present
\* exactly when the phase is AUGMENTING.
C17_PathAndBottleneck ==
  /\ (algoState.pathFound # NullPath) <=> (algoState.bottleneck # NullNumber)
  /\ (algoState.pathFound # NullPath) <=> (algoState.phase = "AUGMENTING")

C17_Witness ==
  /\ algoState.phase = "AUGMENTING"
  /\ Len(algoState.pathFound) >= 4
  /\ algoState.bottleneck >= 2

\* C18: logs is append-only - across a step the old log is a prefix of the new
\* one and at most one entry is appended.
C18_LogsAppendOnly ==
  [][LET old == algoState.logs
         new == algoState'.logs
     IN /\ Len(new) \in {Len(old), Len(old) + 1}
        /\ SubSeq(new, 1, Len(old)) = old]_vars

\* a labeling step that appended nothing: the queue ran empty after a "checked" entry
C18_Witness ==
  /\ algoState.phase = "LABELING" /\ algoState.queue = <<>>
  /\ algoState.logs[Len(algoState.logs)].kind = "checked"

\* C19: in the application every topology edit (add node, add edge, delete
\* node, delete edge, set source, set sink), in whatever engine state it is
\* performed, leaves the engine state equal to initializeAlgorithm(), every
\* edge flow 0 and no node labelled.
C19_EditResetsEngine ==
  [][edits' # edits =>
       /\ algoState' = initializeAlgorithm
       /\ \A i \in EdgeIndices(graph') : graph'.edges[i].flow = 0
       /\ LabelledIds(graph') = {}]_vars

\* C20: in the application every stepAlgorithm call is applied to the most
\* recently committed (graph, state) pair: the handleStep a timer tick runs
\* closed over the pair that is committed when it runs, so no result computed
\* from a snapshot taken before a reset or graph replacement is set after it.
C20_StepsSerialized ==
  [][intervalTick => (interval.graph = graph /\ interval.algoState = algoState)]_vars

\* the phase arcs C21 lists
ListedArcs ==
  {<<"IDLE", "LABELING">>, <<"IDLE", "IDLE">>, <<"LABELING", "LABELING">>,
   <<"LABELING", "AUGMENTING">>, <<"LABELING", "FINISHED">>, <<"AUGMENTING", "IDLE">>}

\* what C21 says of a step from phase p to phase q, with the set of arcs allowed
PhaseStep(arcs) ==
  LET p == algoState.phase
      q == algoState'.phase
  IN /\ <<p, q>> \in arcs
     /\ (p = "IDLE" /\ q = "IDLE") => SourceIds(graph) = {}
     /\ (q = "AUGMENTING") => p = "LABELING"
     /\ (q = "FINISHED") => (p = "LABELING" /\ algoState.queue = <<>>)
     /\ (p = "AUGMENTING") => q = "IDLE"

C22_EnterLabelingRound ==
  (algoState.phase = "IDLE" /\ SourceIds(graph) # {}) =>
    LET r == stepAlgorithm(graph, algoState)
        src == CHOOSE x \in SourceIds(graph) : TRUE
    IN /\ ~r.threw
       /\ r.state.phase = "LABELING"
       /\ r.state.queue = <<src>> /\ r.state.visited = {src}
       /\ r.state.pathFound = NullPath /\ r.state.bottleneck = NullNumber
       /\ r.state.maxFlow = algoState.maxFlow
       /\ Len(r.state.logs) = Len(algoState.logs) + 1
       /\ SubSeq(r.state.logs, 1, Len(algoState.logs)) = algoState.logs
       /\ Len(r.graph.nodes) = Len(graph.nodes)
       /\ \A i \in 1..Len(graph.nodes) :
            r.graph.nodes[i].label =
              IF graph.nodes[i].id = src
              THEN [prevNodeId |-> NullId, direction |-> "+", flow |-> Infinity]
              ELSE NoLabel

\* IDLE between two rounds, the labels of the last round still on three or more nodes
C22_Witness ==
  /\ algoState.phase = "IDLE" /\ SourceIds(graph) # {}
  /\ Cardinality(LabelledIds(graph)) >= 3

\* the neighbours the expansion of u looks at, in the order it looks at them:
\* ends of the edges out of u below capacity in edge-list order, then starts of
\* the edges into u that carry flow in edge-list order
Neighbours(g, u) ==
  Map(SelectSeq(g.edges, LAMBDA e : e.source = u /\ e.flow < e.capacity),
      LAMBDA e : [id |-> e.target, direction |-> "+", residual |-> e.capacity - e.flow])
  \o Map(SelectSeq(g.edges, LAMBDA e : e.target = u /\ e.flow > 0),
         LAMBDA e : [id |-> e.source, direction |-> "-", residual |-> e.flow])

RECURSIVE Keep(_, _, _)
Keep(seq, indices, i) ==
  IF i > Len(seq) THEN <<>>
  ELSE (IF i \in indices THEN <<seq[i]>> ELSE <<>>) \o Keep(seq, indices, i + 1)

\* the neighbours of u that are unvisited, each at its first occurrence
NewNeighbours(g, visited, u) ==
  LET nb == Neighbours(g, u)
  IN Keep(nb, {i \in 1..Len(nb) : /\ nb[i].id \notin visited
                                  /\ \A j \in 1..(i - 1) : nb[j].id # nb[i].id}, 1)

\* C23: a LABELING step with a non-empty queue that stays in LABELING removes
\* the front node u, labels exactly the unvisited neighbours of u (forward
\* ones first, then backward ones, in edge-list order) with prevNodeId = u and
\* their direction, adds them to visited and appends them to the queue in that
\* order; every other label, and every edge, stays as it was.
C23_ExpandsOneNode ==
  [][(algoState.phase = "LABELING" /\ algoState.queue # <<>>
        /\ algoState'.phase = "LABELING" /\ ~threw') =>
       LET u == algoState.queue[1]
           new == NewNeighbours(graph, algoState.visited, u)
           newIds == {new[i].id : i \in 1..Len(new)}
       IN /\ algoState'.queue = Tail(algoState.queue) \o Map(new, LAMBDA x : x.id)
          /\ algoState'.visited = algoState.visited \cup newIds
          /\ graph'.edges = graph.edges
          /\ \A i \in 1..Len(graph.nodes) :
               IF graph.nodes[i].id \in newIds
               THEN \E k \in 1..Len(new) :
                      /\ new[k].id = graph.nodes[i].id
                      /\ graph'.nodes[i].label.prevNodeId = u
                      /\ graph'.nodes[i].label.direction = new[k].direction
               ELSE graph'.nodes[i].label = graph.nodes[i].label]_vars

\* a labeling round under way in which a node was reached against an edge
C23_Witness ==
  /\ algoState.phase = "LABELING"
  /\ \E i \in 1..Len(graph.nodes) :
       graph.nodes[i].label.direction = "-" /\ graph.nodes[i].id \in algoState.visited

\* the node of g with this id
NodeOf(g, id) == g.nodes[CHOOSE i \in 1..Len(g.nodes) : g.nodes[i].id = id]

\* residual capacity of the edge that the label of node n stands for
LabelEdgeResidual(g, n) ==
  IF n.label.direction = "+"
  THEN LET e == g.edges[CHOOSE i \in EdgeIndices(g) :
                          g.edges[i].source = n.label.prevNodeId /\ g.edges[i].target = n.id]
       IN e.capacity - e.flow
  ELSE g.edges[CHOOSE i \in EdgeIndices(g) :
                 g.edges[i].source = n.id /\ g.edges[i].target = n.label.prevNodeId].flow

\* minimum residual capacity along the label chain from the source to node n
RECURSIVE ChainMin(_, _)
ChainMin(g, n) ==
  IF n.label.prevNodeId = NullId THEN Infinity
  ELSE Min(LabelEdgeResidual(g, n), ChainMin(g, NodeOf(g, n.label.prevNodeId)))

\* C24: in every LABELING or AUGMENTING state the label flow of every labelled
\* node other than the source is the minimum residual capacity along its label
\* chain, and so the minimum of its predecessor's label flow and the residual
\* capacity of the connecting edge.
C24_LabelFlow ==
  algoState.phase \in {"LABELING", "AUGMENTING"} =>
    \A i \in 1..Len(graph.nodes) :
      LET n == graph.nodes[i]
      IN (n.label # NoLabel /\ ~n.isSource) =>
           /\ n.label.flow = ChainMin(graph, n)
           /\ n.label.flow = Min(NodeOf(graph, n.label.prevNodeId).label.flow, LabelEdgeResidual(graph, n))

\* a node two or more steps from the source whose label flow is below the
\* residual capacity of its own edge
C24_Witness ==
  /\ algoState.phase \in {"LABELING", "AUGMENTING"}
  /\ \E i \in 1..Len(graph.nodes) :
       LET n == graph.nodes[i]
       IN /\ n.label # NoLabel /\ ~n.isSource
          /\ n.label.prevNodeId \notin SourceIds(graph)
          /\ n.label.flow < LabelEdgeResidual(graph, n)

\* C25: if the expansion of the front node u labels the sink, that step returns
\* phase AUGMENTING with an empty queue and bottleneck equal to the sink's
\* label flow; the nodes labelled are those visited before and the unvisited
\* neighbours of u up to and including the sink, none after it.
C25_SinkDiscovery ==
  (algoState.phase = "LABELING" /\ algoState.queue # <<>>) =>
    LET u == algoState.queue[1]
        new == NewNeighbours(graph, algoState.visited, u)
        r == stepAlgorithm(graph, algoState)
    IN \A k \in 1..Len(new) :
         (new[k].id \in SinkIds(graph) /\ \A j \in 1..(k - 1) : new[j].id \notin SinkIds(graph)) =>
           LET upToSink == {new[j].id : j \in 1..k}
           IN /\ ~r.threw
              /\ r.state.phase = "AUGMENTING"
              /\ r.state.queue = <<>>
              /\ r.state.bottleneck = NodeOf(r.graph, new[k].id).label.flow
              /\ r.state.visited = algoState.visited \cup upToSink
              /\ LabelledIds(r.graph) = LabelledIds(graph) \cup upToSink

\* the consecutive pairs of a path
PathPairs(path) == {<<path[k], path[k + 1]>> : k \in 1..(Len(path) - 1)}

HasEdge(g, a, b) == \E i \in EdgeIndices(g) : g.edges[i].source = a /\ g.edges[i].target = b

\* C26: a step in AUGMENTING changes, for each consecutive pair (a, b) of
\* pathFound, exactly one edge - a->b gains the bottleneck if there is an edge
\* a->b, otherwise b->a loses it - and every other edge keeps its flow.
C26_AugmenterEdgeRule ==
  [][algoState.phase = "AUGMENTING" =>
       LET pairs == PathPairs(algoState.pathFound)
           bn == algoState.bottleneck
       IN /\ \A p \in pairs : HasEdge(graph, p[1], p[2]) \/ HasEdge(graph, p[2], p[1])
          /\ Len(graph'.edges) = Len(graph.edges)
          /\ \A i \in EdgeIndices(graph) :
               LET e == graph.edges[i]
               IN graph'.edges[i].flow =
                    IF <<e.source, e.target>> \in pairs THEN e.flow + bn
                    ELSE IF <<e.target, e.source>> \in pairs /\ ~HasEdge(graph, e.target, e.source)
                         THEN e.flow - bn
                         ELSE e.flow]_vars

\* an augmenting path with a step against an edge, about to be applied
C26_Witness ==
  /\ algoState.phase = "AUGMENTING"
  /\ \E p \in PathPairs(algoState.pathFound) : ~HasEdge(graph, p[1], p[2]) /\ HasEdge(graph, p[2], p[1])

\* C27: a step in AUGMENTING returns phase IDLE, maxFlow increased by the
\* bottleneck, no pathFound, no bottleneck, the same queue, visited set and
\* node labels, and one more log entry.
C27_AugmentingStep ==
  [][algoState.phase = "AUGMENTING" =>
       /\ algoState'.phase = "IDLE"
       /\ algoState'.maxFlow = algoState.maxFlow + algoState.bottleneck
       /\ algoState'.pathFound = NullPath /\ algoState'.bottleneck = NullNumber
       /\ algoState'.queue = algoState.queue /\ algoState'.visited = algoState.visited
       /\ graph'.nodes = graph.nodes
       /\ Len(algoState'.logs) = Len(algoState.logs) + 1
       /\ SubSeq(algoState'.logs, 1, Len(algoState.logs)) = algoState.logs]_vars

\* right after an augmentation: IDLE, four or more nodes still visited and labelled
C27_Witness ==
  /\ algoState.phase = "IDLE" /\ algoState.maxFlow > 0
  /\ algoState.logs[Len(algoState.logs)].kind = "augmented"
  /\ Cardinality(algoState.visited) >= 4
  /\ LabelledIds(graph) = algoState.visited

\* number of residual steps of a shortest residual path from the set reached to
\* the node target, counted from d; -1 if there is none
RECURSIVE ResidualDistance(_, _, _, _)
ResidualDistance(g, reached, target, d) ==
  IF target \in reached THEN d
  ELSE LET more == reached \cup {v \in NodeIdsOf(g) : \E u \in reached : ResidualStep(g, u, v)}
       IN IF more = reached THEN 0 - 1 ELSE ResidualDistance(g, more, target, d + 1)

\* path runs from a source to a sink by residual steps
IsResidualPath(g, path) ==
  /\ Len(path) >= 1
  /\ path[1] \in SourceIds(g) /\ path[Len(path)] \in SinkIds(g)
  /\ \A k \in 1..(Len(path) - 1) : ResidualStep(g, path[k], path[k + 1])

\* C28: whenever the phase is AUGMENTING, pathFound is a simple source-to-sink
\* path of the residual graph of the current flows, with the fewest edges of
\* all such paths.
C28_ShortestAugmentingPath ==
  algoState.phase = "AUGMENTING" =>
    LET path == algoState.pathFound
    IN /\ IsResidualPath(graph, path)
       /\ \A i, j \in 1..Len(path) : path[i] = path[j] => i = j
       /\ Len(path) - 1 = ResidualDistance(graph, SourceIds(graph), path[Len(path)], 0)

\* flow on the edges leaving node id minus flow on the edges entering it, from edge i on
RECURSIVE NetOut(_, _, _)
NetOut(g, id, i) ==
  IF i > Len(g.edges) THEN 0
  ELSE (IF g.edges[i].source = id THEN g.edges[i].flow ELSE 0)
       - (IF g.edges[i].target = id THEN g.edges[i].flow ELSE 0)
       + NetOut(g, id, i + 1)

\* C29: in every reachable state, at every node that is neither the source nor
\* the sink, the flow entering equals the flow leaving.
C29_FlowConservation ==
  \A id \in NodeIdsOf(graph) \ (SourceIds(graph) \cup SinkIds(graph)) : NetOut(graph, id, 1) = 0

\* C30: in every state reached by stepping from zero flows and
\* initializeAlgorithm(), maxFlow equals the net flow into the sink and the net
\* flow out of the source.
C30_MaxFlowIsNetFlow ==
  /\ \A t \in SinkIds(graph) : algoState.maxFlow = 0 - NetOut(graph, t, 1)
  /\ \A s \in SourceIds(graph) : algoState.maxFlow = NetOut(graph, s, 1)

\* total capacity of the edges leaving the source
SourceCapacity(g) == CutCapacity(g, SourceIds(g), 1)

\* log entries a run can hold before FINISHED is logged: the initial entry,
\* then per round one start, at most one entry per node expanded and one
\* closing entry, for at most SourceCapacity + 1 rounds
LogBudget(g) == 1 + (SourceCapacity(g) + 1) * (Len(g.nodes) + 2)

NoFinishedLog == \A i \in 1..Len(algoState.logs) : algoState.logs[i].kind # "finished"

\* nodes expanded so far in the current round
Expanded(st) == Cardinality(st.visited) - Len(st.queue)

\* C31: on a graph with a source, stepping from the initial state reaches
\* FINISHED: no step throws and FINISHED is logged within the log budget of
\* the graph; a round takes at most |nodes| + 1 LABELING steps, each such step
\* expanding one more node or ending the round; and each augmentation raises
\* maxFlow by at least 1.
C31_Termination ==
  /\ [](SourceIds(graph) # {} =>
          /\ ~threw
          /\ NoFinishedLog => Len(algoState.logs) < LogBudget(graph)
          /\ algoState.phase = "LABELING" => Expanded(algoState) <= Len(graph.nodes))
  /\ [][(SourceIds(graph) # {} /\ ~threw') =>
          /\ (algoState.phase = "LABELING" /\ algoState.queue # <<>> /\ algoState'.phase = "LABELING")
               => Expanded(algoState') = Expanded(algoState) + 1
          /\ (algoState.phase = "LABELING" /\ algoState.queue = <<>>) => algoState'.phase = "FINISHED"
          /\ algoState.phase = "AUGMENTING" => algoState'.maxFlow >= algoState.maxFlow + 1]_vars

SourceFlags(g) == {i \in 1..Len(g.nodes) : g.nodes[i].isSource}

SinkFlags(g) == {i \in 1..Len(g.nodes) : g.nodes[i].isSink}

====
